---- MODULE Spec2Model ----
(***************************************************************************)
(* GenAI Stack Builder: the workflow editor hook (useWorkflow), its        *)
(* validation, the build / chat gating of WorkflowBuilder, the streaming   *)
(* reader of executeApi.chat and the message list of ChatInterface.        *)
(*                                                                         *)
(* ConfigPanel, the template engine of the execution backend and the      *)
(* stack list of App are modelled too.                                     *)
(*                                                                         *)
(* The specifications share the variables:                                 *)
(*   SpecValidate  validateWorkflow applied to every graph within bounds   *)
(*   Spec          the editor: addNode, onConnect, deleteNode, edge        *)
(*                 removal, handleBuild, chat open / close, handleSend     *)
(*   SpecChat      one chat window on a built graph: handleSend, fetch,    *)
(*                 the reader loop of executeApi.chat, the settling of     *)
(*                 handleChatMessage and handleSend                        *)
(*   SpecEdit      a saved stack, built and chatted with: the graph is     *)
(*                 edited and rebuilt while the chat request is in flight  *)
(*   FairSpecChat  SpecChat with short bodies, where a pending promise     *)
(*                 eventually settles                                      *)
(*   SpecConfig    a knowledge base and an LLM engine configured through   *)
(*                 ConfigPanel                                             *)
(*   SpecRender    render(template, bindings) on every template and        *)
(*                 binding within bounds                                   *)
(*   SpecApp       App: the dashboard, create / edit / save / delete of    *)
(*                 stacks and the stacksApi calls                          *)
(***************************************************************************)
EXTENDS Integers, Sequences, FiniteSets, TLC

(***************************************************************************)
(* Bounds                                                                  *)
(***************************************************************************)
\* nodes of a graph handed to validateWorkflow in SpecValidate
MaxNodes == 4
\* edges of a graph handed to validateWorkflow in SpecValidate
MaxEdges == 3
\* nodes ever created by addNode in Spec (uuid supply)
MaxIds == 3
\* edges held by the editor in Spec
MaxConn == 2

(***************************************************************************)
(* State                                                                   *)
(***************************************************************************)
VARIABLES
    nodes,          \* useNodesState: sequence of [id, type]
    edges,          \* useEdgesState: set of [source, target]
    selectedNode,   \* useState(null): <<>> or <<node>>
    isValid,        \* useState(false)
    nextId,         \* the next fresh uuid
    isBuilt,        \* WorkflowBuilder useState(false)
    buildError,     \* WorkflowBuilder useState(null)
    isChatOpen,     \* WorkflowBuilder useState(false)
    toast,          \* WorkflowBuilder useState(null): <<>> or <<[message, type]>>
    verdict,        \* what the last validateWorkflow() call returned: <<>> or <<result>>
    messages,       \* ChatInterface useState([]): sequence of messages
    input,          \* ChatInterface useState('')
    isLoading,      \* ChatInterface useState(false)
    clock,          \* Date.now()
    pc,             \* where the pending handleSend stands: idle, fetch or read
    request,        \* the body of the POST /execute/chat in flight: <<>> or <<data>>
    assistantMsgId, \* handleSend's assistantMsgId of the pending send
    body,           \* the response body of the pending or last send
    wire,           \* the part of the response body not yet read
    buffer,         \* executeApi.chat: buffer
    fullContent,    \* executeApi.chat: fullContent
    delivered,      \* the arguments of the onChunk calls of the last send, in call order
    chatCall,       \* how the last executeApi.chat call ended
    sends,          \* number of handleSend calls that went through
    received,       \* number of event lines in the response bodies so far
    template,       \* template engine: the template of the last render call
    bindings,       \* template engine: the bindings of the last render call
    rendered,       \* template engine: <<>> or <<what render returned>>
    currentView,    \* App useState(VIEWS.DASHBOARD)
    stacks,         \* App useState([]): sequence of stacks
    currentStack,   \* App useState(null): <<>> or <<stack>>
    loading,        \* App useState(true)
    error,          \* App useState(null)
    confirming,     \* the window.confirm dialog of handleDeleteStack: <<>> or <<stackId>>
    pending,        \* the stacksApi calls in flight
    store,          \* the stacks the backend holds
    created         \* number of stacks the backend has created

graphVars == <<nodes, edges, selectedNode, isValid, nextId>>
builderVars == <<isBuilt, buildError, isChatOpen, toast>>
chatVars == <<messages, input, isLoading, clock, pc, request, assistantMsgId, sends, received>>
streamVars == <<body, wire, buffer, fullContent, delivered, chatCall>>
renderVars == <<template, bindings, rendered>>
appVars == <<currentView, stacks, currentStack, loading, error, confirming, pending, store, created>>

(***************************************************************************)
(* Node kinds                                                              *)
(***************************************************************************)
UserQuery == "userQuery"
KnowledgeBase == "knowledgeBase"
LLMEngine == "llmEngine"
Output == "output"
\* a type string that nodeData has no entry for
UnknownKind == "custom"

PanelKinds == {UserQuery, KnowledgeBase, LLMEngine, Output}
NodeKinds == PanelKinds \cup {UnknownKind}

\* a JavaScript number in a node's data: <<n>>, or <<>> for NaN
Num(n) == <<n>>
NaN == <<>>

\* temperatures are counted in tenths: 0.7 is 7
DefaultTemperature == 7
DefaultPrompt == <<"Context: ", "{{context}}", " Question: ", "{{query}}", " Answer:">>

\* addNode's nodeData[type] || { label: type }; a field the object does not
\* have is a field the record does not have
DefaultLabel(type) ==
    IF type = UserQuery THEN "User Query"
    ELSE IF type = KnowledgeBase THEN "Knowledge Base"
    ELSE IF type = LLMEngine THEN "LLM Engine"
    ELSE IF type = Output THEN "Output"
    ELSE type
nodeData(type) ==
    IF type = KnowledgeBase
    THEN [label |-> DefaultLabel(type), embeddingModel |-> "text-embedding-3-large"]
    ELSE IF type = LLMEngine
    THEN [label |-> DefaultLabel(type), temperature |-> Num(DefaultTemperature),
          prompt |-> DefaultPrompt, enableWebSearch |-> FALSE]
    ELSE [label |-> DefaultLabel(type)]

\* the node addNode builds
NewNode(id, type) == [id |-> id, type |-> type, data |-> nodeData(type)]

(***************************************************************************)
(* validateWorkflow                                                        *)
(***************************************************************************)
ErrMissingComponents == "Workflow must include User Query, LLM Engine, and Output components."
ErrLLMToOutput == "LLM Engine must be connected to Output."
ErrNoInputToLLM == "LLM Engine must have an input connection."
Undefined == "undefined"

\* nodes.some((n) => n.type === kind)
SomeOfKind(ns, kind) == \E i \in DOMAIN ns : ns[i].type = kind

\* what find() returns when no node matches; reading .id of it throws in the
\* code, which validateWorkflow rules out by its first check
NoNode == [id |-> 0, type |-> "undefined"]

\* nodes.find((n) => n.type === kind): the first node of that kind
FindOfKind(ns, kind) ==
    IF SomeOfKind(ns, kind)
    THEN ns[CHOOSE i \in DOMAIN ns :
               /\ ns[i].type = kind
               /\ \A j \in 1..(i - 1) : ns[j].type # kind]
    ELSE NoNode

\* edges.some((e) => e.source === s && e.target === t)
SomeEdge(es, s, t) == \E e \in es : e.source = s /\ e.target = t

\* edges.some((e) => e.target === t)
SomeEdgeInto(es, t) == \E e \in es : e.target = t

Invalid(msg) == [valid |-> FALSE, error |-> msg]
Valid == [valid |-> TRUE, error |-> Undefined]

\* mutant: the build fails only when all three components are absent
MissingRequired_All(ns) ==
    /\ ~SomeOfKind(ns, UserQuery)
    /\ ~SomeOfKind(ns, Output)
    /\ ~SomeOfKind(ns, LLMEngine)

\* !hasUserQuery || !hasOutput || !hasLLM
MissingRequired(ns) ==
    \/ ~SomeOfKind(ns, UserQuery)
    \/ ~SomeOfKind(ns, Output)
    \/ ~SomeOfKind(ns, LLMEngine)

\* the nodes the checks are made on: userQueryNode, llmNode, outputNode
ResolvedNodes(ns) ==
    <<FindOfKind(ns, UserQuery), FindOfKind(ns, LLMEngine), FindOfKind(ns, Output)>>

\* mutant: the edge is looked for from Output to the LLM Engine
LlmToOutput_Reversed(ns, es) ==
    SomeEdge(es, FindOfKind(ns, Output).id, FindOfKind(ns, LLMEngine).id)

\* mutant: any edge leaving the LLM Engine counts
LlmToOutput_AnyTarget(ns, es) ==
    \E e \in es : e.source = FindOfKind(ns, LLMEngine).id

\* edges.some((e) => e.source === llmNode.id && e.target === outputNode.id)
LlmToOutput(ns, es) ==
    SomeEdge(es, FindOfKind(ns, LLMEngine).id, FindOfKind(ns, Output).id)

\* mutant: the LLM Engine must have one input edge and no more
HasInputToLLM_Single(ns, es) ==
    Cardinality({ e \in es : e.target = FindOfKind(ns, LLMEngine).id }) = 1

\* mutant: the edge is matched on its source
HasInputToLLM_Source(ns, es) ==
    \E e \in es : e.source = FindOfKind(ns, LLMEngine).id

\* edges.some((e) => e.target === llmNode.id)
HasInputToLLM(ns, es) == SomeEdgeInto(es, FindOfKind(ns, LLMEngine).id)

validateWorkflow(ns, es) ==
    IF MissingRequired(ns) THEN Invalid(ErrMissingComponents)
    ELSE IF ~LlmToOutput(ns, es) THEN Invalid(ErrLLMToOutput)
    ELSE IF ~HasInputToLLM(ns, es) THEN Invalid(ErrNoInputToLLM)
    ELSE Valid

\* validateWorkflow calls setIsValid(true) on the accepting path only
IsValidAfter(result, was) == IF result.valid THEN TRUE ELSE was

(***************************************************************************)
(* ChatInterface: initial state                                            *)
(***************************************************************************)
NoCall == [state |-> "none", error |-> ""]

ChatInit ==
    /\ messages = <<>>
    /\ input = ""
    /\ isLoading = FALSE
    /\ clock = 0
    /\ pc = "idle"
    /\ request = <<>>
    /\ assistantMsgId = 0
    /\ body = <<>>
    /\ wire = <<>>
    /\ buffer = <<>>
    /\ fullContent = <<>>
    /\ delivered = <<>>
    /\ chatCall = NoCall
    /\ sends = 0
    /\ received = 0

\* no render call has been made
RenderIdle ==
    /\ template = <<>>
    /\ bindings = <<>>
    /\ rendered = <<>>

VIEWS == [DASHBOARD |-> "dashboard", BUILDER |-> "builder"]

\* the App shows the WorkflowBuilder and no stacksApi call is in flight
AppInBuilder ==
    /\ currentView = VIEWS.BUILDER
    /\ stacks = <<>>
    /\ currentStack = <<>>
    /\ loading = FALSE
    /\ error = "null"
    /\ confirming = <<>>
    /\ pending = {}
    /\ store = <<>>
    /\ created = 0

(***************************************************************************)
(* SpecValidate: validateWorkflow on every graph within the bounds         *)
(***************************************************************************)
\* node lists of length n over the kinds of the component panel, the i-th
\* node carrying id i
NodeLists(n) ==
    { [i \in 1..n |-> NewNode(i, f[i])] : f \in [1..n -> PanelKinds] }

\* UserQueryNode renders a source handle only, OutputNode a target handle only
HasSourceHandle(kind) == kind # Output
HasTargetHandle(kind) == kind # UserQuery

\* the connections the canvas can draw between the nodes of ns
Connectable(ns) ==
    { [source |-> ns[i].id, target |-> ns[j].id] :
        i \in { a \in DOMAIN ns : HasSourceHandle(ns[a].type) },
        j \in { b \in DOMAIN ns : HasTargetHandle(ns[b].type) } }

\* the sets of at most k edges drawn from univ
RECURSIVE EdgeSets(_, _)
EdgeSets(univ, k) ==
    IF k = 0 THEN {{}}
    ELSE LET smaller == EdgeSets(univ, k - 1)
         IN  smaller \cup { s \cup {e} : s \in smaller, e \in univ }

InitValidate ==
    /\ \E n \in 0..MaxNodes :
          /\ nodes \in NodeLists(n)
          /\ edges \in EdgeSets(Connectable(nodes), MaxEdges)
          /\ nextId = n + 1
    /\ selectedNode = <<>>
    /\ isValid = FALSE
    /\ isBuilt = FALSE
    /\ buildError = "null"
    /\ isChatOpen = FALSE
    /\ toast = <<>>
    /\ verdict = <<>>
    /\ ChatInit
    /\ RenderIdle
    /\ AppInBuilder

\* one call of validateWorkflow() on the current graph
Validate ==
    /\ verdict = <<>>
    /\ LET result == validateWorkflow(nodes, edges)
       IN  /\ verdict' = <<result>>
           /\ isValid' = IsValidAfter(result, isValid)
    /\ UNCHANGED <<nodes, edges, selectedNode, nextId, builderVars>>
    /\ UNCHANGED <<chatVars, streamVars>>
    /\ UNCHANGED <<renderVars, appVars>>

vars == <<nodes, edges, selectedNode, isValid, nextId, isBuilt, buildError,
          isChatOpen, toast, verdict, messages, input, isLoading, clock, pc,
          request, assistantMsgId, body, wire, buffer, fullContent, delivered,
          chatCall, sends, received, renderVars, appVars>>

NextValidate == Validate

SpecValidate == InitValidate /\ [][NextValidate]_vars

(***************************************************************************)
(* useWorkflow: the editor operations                                      *)
(***************************************************************************)
\* addNode(type, position): a node with a fresh id is appended
AddNode(type) ==
    /\ nextId <= MaxIds
    /\ nodes' = Append(nodes, NewNode(nextId, type))
    /\ nextId' = nextId + 1
    /\ UNCHANGED <<edges, selectedNode, isValid, builderVars, verdict>>
    /\ UNCHANGED <<chatVars, streamVars>>
    /\ UNCHANGED <<renderVars, appVars>>

\* addEdge(edge, eds): the edge is added unless one with the same source and
\* target is there already
addEdge(e, es) == es \cup {e}

\* onConnect(params), params being a connection drawn on the canvas
OnConnect(e) ==
    /\ e \in Connectable(nodes)
    /\ e \notin edges
    /\ Cardinality(edges) < MaxConn
    /\ edges' = addEdge(e, edges)
    /\ UNCHANGED <<nodes, selectedNode, isValid, nextId, builderVars, verdict>>
    /\ UNCHANGED <<chatVars, streamVars>>
    /\ UNCHANGED <<renderVars, appVars>>

\* onEdgesChange with a remove change (an edge selected and deleted on the canvas)
RemoveEdge(e) ==
    /\ e \in edges
    /\ edges' = edges \ {e}
    /\ UNCHANGED <<nodes, selectedNode, isValid, nextId, builderVars, verdict>>
    /\ UNCHANGED <<chatVars, streamVars>>
    /\ UNCHANGED <<renderVars, appVars>>

\* nds.filter((node) => node.id !== nodeId)
WithoutNode(ns, nodeId) == SelectSeq(ns, LAMBDA n : n.id # nodeId)

\* mutant: only the edges leaving the node are dropped
WithoutEdgesOf_Source(es, nodeId) == { e \in es : e.source # nodeId }

\* eds.filter((edge) => edge.source !== nodeId && edge.target !== nodeId)
WithoutEdgesOf(es, nodeId) ==
    { e \in es : e.source # nodeId /\ e.target # nodeId }

\* deleteNode(nodeId), called by ConfigPanel with the id of the selected node
DeleteNode ==
    /\ selectedNode # <<>>
    /\ LET nodeId == selectedNode[1].id
       IN  /\ nodes' = WithoutNode(nodes, nodeId)
           /\ edges' = WithoutEdgesOf(edges, nodeId)
           /\ selectedNode' = IF selectedNode[1].id = nodeId THEN <<>> ELSE selectedNode
    /\ UNCHANGED <<isValid, nextId, builderVars, verdict>>
    /\ UNCHANGED <<chatVars, streamVars>>
    /\ UNCHANGED <<renderVars, appVars>>

\* onNodeClick(event, node)
OnNodeClick(i) ==
    /\ i \in DOMAIN nodes
    /\ selectedNode # <<nodes[i]>>
    /\ selectedNode' = <<nodes[i]>>
    /\ UNCHANGED <<nodes, edges, isValid, nextId, builderVars, verdict>>
    /\ UNCHANGED <<chatVars, streamVars>>
    /\ UNCHANGED <<renderVars, appVars>>

\* onPaneClick and ConfigPanel's onClose: setSelectedNode(null)
ClearSelection ==
    /\ selectedNode # <<>>
    /\ selectedNode' = <<>>
    /\ UNCHANGED <<nodes, edges, isValid, nextId, builderVars, verdict>>
    /\ UNCHANGED <<chatVars, streamVars>>
    /\ UNCHANGED <<renderVars, appVars>>

\* getWorkflowConfig(): the nodes and edges reduced to the fields that are sent
getWorkflowConfig(ns, es) ==
    [nodes |-> [i \in DOMAIN ns |->
                   [id |-> ns[i].id, type |-> ns[i].type, data |-> ns[i].data]],
     edges |-> { [source |-> e.source, target |-> e.target] : e \in es }]

(***************************************************************************)
(* WorkflowBuilder: build and chat gating                                  *)
(***************************************************************************)
ToastBuilt == [message |-> "Stack built successfully! Ready to chat.", type |-> "success"]
ToastError(msg) == [message |-> msg, type |-> "error"]
ToastBackend == ToastError("Backend execution failed. Using simulation mode.")

\* mutant: building also drops the selection
HandleBuild_Deselect ==
    /\ LET result == validateWorkflow(nodes, edges)
       IN  /\ verdict' = <<result>>
           /\ isValid' = IsValidAfter(result, isValid)
           /\ isBuilt' = result.valid
           /\ buildError' = IF result.valid THEN "null" ELSE result.error
           /\ toast' = toast
    /\ selectedNode' = <<>>
    /\ UNCHANGED <<nodes, edges, nextId, isChatOpen>>
    /\ UNCHANGED <<chatVars, streamVars>>
    /\ UNCHANGED <<renderVars, appVars>>

\* handleBuild()
HandleBuild ==
    /\ LET result == validateWorkflow(nodes, edges)
       IN  /\ verdict' = <<result>>
           /\ isValid' = IsValidAfter(result, isValid)
           /\ IF result.valid
              THEN /\ isBuilt' = TRUE
                   /\ buildError' = "null"
                   /\ toast' = <<ToastBuilt>>
              ELSE /\ isBuilt' = FALSE
                   /\ buildError' = result.error
                   /\ toast' = <<ToastError(result.error)>>
    /\ <<verdict, isBuilt, buildError, toast>>' # <<verdict, isBuilt, buildError, toast>>
    /\ UNCHANGED <<nodes, edges, selectedNode, nextId, isChatOpen>>
    /\ UNCHANGED <<chatVars, streamVars>>
    /\ UNCHANGED <<renderVars, appVars>>

\* showToast: setTimeout(() => setToast(null), 3000)
ToastExpire ==
    /\ toast # <<>>
    /\ toast' = <<>>
    /\ UNCHANGED <<graphVars, isBuilt, buildError, isChatOpen, verdict>>
    /\ UNCHANGED <<chatVars, streamVars>>
    /\ UNCHANGED <<renderVars, appVars>>

\* the 'Chat with Stack' button, rendered when isBuilt
OpenChat ==
    /\ isBuilt
    /\ ~isChatOpen
    /\ isChatOpen' = TRUE
    /\ UNCHANGED <<graphVars, isBuilt, buildError, toast, verdict>>
    /\ UNCHANGED <<chatVars, streamVars>>
    /\ UNCHANGED <<renderVars, appVars>>

\* ChatInterface onClose
CloseChat ==
    /\ isChatOpen
    /\ isChatOpen' = FALSE
    /\ UNCHANGED <<graphVars, isBuilt, buildError, toast, verdict>>
    /\ UNCHANGED <<chatVars, streamVars>>
    /\ UNCHANGED <<renderVars, appVars>>

(***************************************************************************)
(* ChatInterface: input and handleSend up to the fetch                     *)
(***************************************************************************)
\* number of handleSend calls explored
MaxSends == 2

Blank == "   "
InputTexts == {"", Blank, "hello"}

\* String.prototype.trim on the texts above
Trim(text) == IF text = Blank THEN "" ELSE text

\* milliseconds between one handleSend and the next: the earlier call has
\* settled and the user has typed in between, which takes a millisecond at least
MsPerSend == 1

StackId == "temp"

UserMessage(id, text) ==
    [id |-> id, role |-> "user", content |-> <<text>>,
     isStreaming |-> FALSE, isError |-> FALSE]

AssistantPlaceholder(id) ==
    [id |-> id, role |-> "assistant", content |-> <<>>,
     isStreaming |-> TRUE, isError |-> FALSE]

\* the data handleChatMessage passes to executeApi.chat
ChatRequest(message, ns, es) ==
    LET config == getWorkflowConfig(ns, es)
    IN  [stack_id |-> StackId, query |-> message,
         nodes |-> config.nodes, edges |-> config.edges]

\* the input's onChange (the field is rendered when the chat is open and
\* disabled while isLoading)
TypeInput(text) ==
    /\ isChatOpen
    /\ ~isLoading
    /\ text # input
    /\ input' = text
    /\ UNCHANGED <<graphVars, builderVars, verdict, streamVars>>
    /\ UNCHANGED <<messages, isLoading, clock, pc, request, assistantMsgId, sends, received>>
    /\ UNCHANGED <<renderVars, appVars>>

\* mutant: handleSend without its guard
HandleSend_Unguarded ==
    /\ isChatOpen
    /\ sends < MaxSends
    /\ LET now == clock
       IN  /\ messages' = messages \o <<UserMessage(now, Trim(input)),
                                        AssistantPlaceholder(now + 1)>>
           /\ assistantMsgId' = now + 1
    /\ input' = ""
    /\ isLoading' = TRUE
    /\ request' = <<ChatRequest(Trim(input), nodes, edges)>>
    /\ pc' = "fetch"
    /\ clock' = clock + MsPerSend
    /\ sends' = sends + 1
    /\ body' = <<>>
    /\ wire' = <<>>
    /\ buffer' = <<>>
    /\ fullContent' = <<>>
    /\ delivered' = <<>>
    /\ chatCall' = [state |-> "pending", error |-> ""]
    /\ UNCHANGED <<graphVars, builderVars, verdict, received>>
    /\ UNCHANGED <<renderVars, appVars>>

\* handleSend() from its guard to the fetch() of executeApi.chat
HandleSend ==
    /\ isChatOpen
    /\ ~(Trim(input) = "" \/ isLoading)
    /\ sends < MaxSends
    /\ LET now == clock
       IN  /\ messages' = messages \o <<UserMessage(now, Trim(input)),
                                        AssistantPlaceholder(now + 1)>>
           /\ assistantMsgId' = now + 1
    /\ input' = ""
    /\ isLoading' = TRUE
    /\ request' = <<ChatRequest(Trim(input), nodes, edges)>>
    /\ pc' = "fetch"
    /\ clock' = clock + MsPerSend
    /\ sends' = sends + 1
    /\ body' = <<>>
    /\ wire' = <<>>
    /\ buffer' = <<>>
    /\ fullContent' = <<>>
    /\ delivered' = <<>>
    /\ chatCall' = [state |-> "pending", error |-> ""]
    /\ UNCHANGED <<graphVars, builderVars, verdict, received>>
    /\ UNCHANGED <<renderVars, appVars>>

(***************************************************************************)
(* Spec: the editor, from an empty canvas                                  *)
(***************************************************************************)
Init ==
    /\ nodes = <<>>
    /\ edges = {}
    /\ selectedNode = <<>>
    /\ isValid = FALSE
    /\ nextId = 1
    /\ isBuilt = FALSE
    /\ buildError = "null"
    /\ isChatOpen = FALSE
    /\ toast = <<>>
    /\ verdict = <<>>
    /\ ChatInit
    /\ RenderIdle
    /\ AppInBuilder

Next ==
    \/ \E type \in NodeKinds : AddNode(type)
    \/ \E e \in Connectable(nodes) : OnConnect(e)
    \/ \E e \in edges : RemoveEdge(e)
    \/ DeleteNode
    \/ \E i \in DOMAIN nodes : OnNodeClick(i)
    \/ ClearSelection
    \/ HandleBuild
    \/ ToastExpire
    \/ OpenChat
    \/ CloseChat
    \/ \E text \in InputTexts : TypeInput(text)
    \/ HandleSend

Spec == Init /\ [][Next]_vars

(***************************************************************************)
(* The response body of POST /execute/chat                                 *)
(***************************************************************************)
\* event lines in the response bodies of all sends together
MaxLines == 4

\* the characters of a body: the newline, the 'data: ' prefix of an SSE line,
\* the closing brace of a JSON object, and one character for each JSON object
\* up to its closing brace
NL == "NL"
RB == "}"
SsePrefix == "data: "
OpenMeta == "{\"done\": true, \"metadata\": {}"
OpenError == "{\"error\": \"generation failed\""

\* the chunk event of the i-th line of a body: its text, and its JSON up to
\* the closing brace
FragNames == <<"f1", "f2", "f3", "f4", "f5", "f6">>
OpenChunk == <<"{\"chunk\": \"f1\"", "{\"chunk\": \"f2\"", "{\"chunk\": \"f3\"",
               "{\"chunk\": \"f4\"", "{\"chunk\": \"f5\"", "{\"chunk\": \"f6\"">>
Frags == { FragNames[i] : i \in DOMAIN FragNames }
FragIndex(text) == CHOOSE i \in DOMAIN FragNames : FragNames[i] = text
OpenChunks == { OpenChunk[i] : i \in DOMAIN OpenChunk }
ChunkText(open) == FragNames[CHOOSE i \in DOMAIN OpenChunk : OpenChunk[i] = open]

\* json.dumps of the i-th event of a stream, by kind
EncodeEvent(kind, i) ==
    IF kind = "chunk" THEN <<OpenChunk[i], RB>>
    ELSE IF kind = "metadata" THEN <<OpenMeta, RB>>
    ELSE <<OpenError, RB>>

EventKinds == {"chunk", "metadata", "error"}

\* the i-th line: the JSON alone, or behind 'data: ' as the README frames it
LineOf(kind, i, sse) ==
    (IF sse THEN <<SsePrefix>> ELSE <<>>) \o EncodeEvent(kind, i)

\* the lines joined by newlines, with or without a newline after the last
RECURSIVE JoinLines(_, _, _, _)
JoinLines(kinds, i, sse, trailing) ==
    IF i > Len(kinds) THEN <<>>
    ELSE LineOf(kinds[i], i, sse)
         \o (IF i < Len(kinds) \/ trailing THEN <<NL>> ELSE <<>>)
         \o JoinLines(kinds, i + 1, sse, trailing)

\* streams of JSON lines: every sequence of at most max events
JsonBodies(max) ==
    { JoinLines(kinds, 1, FALSE, trailing) :
        kinds \in UNION { [1..n -> EventKinds] : n \in 0..max },
        trailing \in BOOLEAN }

\* streams in the README's framing: chunks, then the done / metadata event
SseBodies(max) ==
    { JoinLines([i \in 1..n |-> IF i < n THEN "chunk" ELSE "metadata"], 1, TRUE, trailing) :
        n \in 1..max, trailing \in BOOLEAN }

Bodies(max) == JsonBodies(max) \cup SseBodies(max)

\* the number of events in a body (each has one closing brace)
NumEvents(b) == Cardinality({ i \in DOMAIN b : b[i] = RB })

(***************************************************************************)
(* executeApi.chat: the reader loop                                        *)
(***************************************************************************)
\* buffer.split('\n')
RECURSIVE SplitLines(_)
SplitLines(buf) ==
    IF \A i \in DOMAIN buf : buf[i] # NL THEN <<buf>>
    ELSE LET k == CHOOSE i \in DOMAIN buf :
                      buf[i] = NL /\ \A j \in 1..(i - 1) : buf[j] # NL
         IN  <<SubSeq(buf, 1, k - 1)>> \o SplitLines(SubSeq(buf, k + 1, Len(buf)))

\* mutant: the last piece is dropped and the buffer starts empty on every read
LastPiece_Dropped(lines) == SubSeq(lines[Len(lines)], 1, 0)

\* lines.pop(): the last piece stays in the buffer
LastPiece(lines) == lines[Len(lines)]
AllButLast(lines) == SubSeq(lines, 1, Len(lines) - 1)

\* !line.trim()
IsBlank(line) == line = <<>>

NoData == [chunk |-> "", metadata |-> FALSE, error |-> ""]

\* JSON.parse(line): <<data>>, or <<>> when it throws
JsonParse(line) ==
    IF Len(line) = 2 /\ line[2] = RB /\ line[1] \in OpenChunks \cup {OpenMeta, OpenError}
    THEN IF line[1] \in OpenChunks THEN <<[NoData EXCEPT !.chunk = ChunkText(line[1])]>>
         ELSE IF line[1] = OpenMeta THEN <<[NoData EXCEPT !.metadata = TRUE]>>
         ELSE <<[NoData EXCEPT !.error = "generation failed"]>>
    ELSE <<>>

\* mutant: the fragment is put in front of the content
onChunk_Prepend(msgs, id, chunkData) ==
    [i \in DOMAIN msgs |->
        IF msgs[i].id = id /\ chunkData.chunk # ""
        THEN [msgs[i] EXCEPT !.content = <<chunkData.chunk>> \o @]
        ELSE msgs[i]]

\* mutant: the fragment goes to every assistant message of the list
onChunk_AllAssistants(msgs, id, chunkData) ==
    [i \in DOMAIN msgs |->
        IF msgs[i].role = "assistant" /\ chunkData.chunk # ""
        THEN [msgs[i] EXCEPT !.content = @ \o <<chunkData.chunk>>]
        ELSE msgs[i]]

\* handleSend's streaming handler: (chunkData) => setMessages(prev => prev.map(...))
onChunk(msgs, id, chunkData) ==
    [i \in DOMAIN msgs |->
        IF msgs[i].id = id
        THEN IF chunkData.chunk # ""
             THEN [msgs[i] EXCEPT !.content = @ \o <<chunkData.chunk>>]
             ELSE msgs[i]
        ELSE msgs[i]]

\* the body of the for loop for one line; acc holds fullContent, the message
\* list and the onChunk calls made so far
ProcessLine(acc, line, id) ==
    IF IsBlank(line) THEN acc
    ELSE LET parsed == JsonParse(line)
         IN  IF parsed = <<>> THEN acc
             ELSE LET data == parsed[1]
                  IN  IF data.chunk # ""
                      THEN [full |-> acc.full \o <<data.chunk>>,
                            msgs |-> onChunk(acc.msgs, id, data),
                            calls |-> Append(acc.calls, data)]
                      ELSE IF data.metadata
                      THEN [acc EXCEPT !.msgs = onChunk(acc.msgs, id, data),
                                       !.calls = Append(acc.calls, data)]
                      \* data.error: throw new Error(data.error), which the
                      \* catch of the same try logs and drops
                      ELSE acc

\* for (const line of lines) { ... }
RECURSIVE ProcessLines(_, _, _)
ProcessLines(acc, lines, id) ==
    IF lines = <<>> THEN acc
    ELSE ProcessLines(ProcessLine(acc, Head(lines), id), Tail(lines), id)

(***************************************************************************)
(* handleChatMessage and the settling of handleSend                        *)
(***************************************************************************)
Resolved == [state |-> "resolved", error |-> ""]
Rejected(msg) == [state |-> "rejected", error |-> msg]

\* handleChatMessage's try / catch around executeApi.chat: the promise it
\* returns resolves in both cases
handleChatMessage(call) ==
    IF call.state = "rejected"
    THEN [state |-> "resolved", content |-> "Backend Connection Error", toast |-> <<ToastBackend>>]
    ELSE [state |-> "resolved", content |-> "response.content", toast |-> <<>>]

\* msg.id === assistantMsgId ? { ...msg, isStreaming: false } : msg
MarkStreamingDone(msgs, id) ==
    [i \in DOMAIN msgs |->
        IF msgs[i].id = id THEN [msgs[i] EXCEPT !.isStreaming = FALSE] ELSE msgs[i]]

ErrorContent(msg) == <<"Error: ", msg>>

\* handleSend's catch block
MarkError(msgs, msg, now) ==
    IF /\ msgs # <<>>
       /\ msgs[Len(msgs)].role = "assistant"
       /\ msgs[Len(msgs)].isStreaming
    THEN [i \in DOMAIN msgs |->
            IF msgs[i].id = msgs[Len(msgs)].id
            THEN [msgs[i] EXCEPT !.content = ErrorContent(msg),
                                 !.isError = TRUE, !.isStreaming = FALSE]
            ELSE msgs[i]]
    ELSE Append(msgs, [id |-> now + 2, role |-> "assistant",
                       content |-> ErrorContent(msg),
                       isStreaming |-> FALSE, isError |-> TRUE])

\* handleSend after `await onSendMessage(...)`: the try continues when the
\* promise resolved, the catch runs when it rejected
AfterAwait(msgs, id, sent, now) ==
    IF sent.state = "resolved"
    THEN MarkStreamingDone(msgs, id)
    ELSE MarkError(msgs, "Something went wrong.", now)

\* mutant: handleSend has no finally block
Settle_NoFinally(call) ==
    LET sent == handleChatMessage(call)
    IN  /\ chatCall' = call
        /\ messages' = AfterAwait(messages, assistantMsgId, sent, clock)
        /\ toast' = IF sent.toast # <<>> THEN sent.toast ELSE toast
        /\ isLoading' = isLoading
        /\ pc' = "idle"

\* executeApi.chat ended with `call`: handleChatMessage returns, handleSend
\* resumes and its finally block runs
Settle(call) ==
    LET sent == handleChatMessage(call)
    IN  /\ chatCall' = call
        /\ messages' = AfterAwait(messages, assistantMsgId, sent, clock)
        /\ toast' = IF sent.toast # <<>> THEN sent.toast ELSE toast
        /\ isLoading' = FALSE
        /\ pc' = "idle"

\* fetch() rejects: the server cannot be reached
FetchFails ==
    /\ pc = "fetch"
    /\ Settle(Rejected("Failed to fetch"))
    /\ UNCHANGED <<graphVars, isBuilt, buildError, isChatOpen, verdict>>
    /\ UNCHANGED <<input, clock, request, assistantMsgId, sends, received>>
    /\ UNCHANGED <<body, wire, buffer, fullContent, delivered>>
    /\ UNCHANGED <<renderVars, appVars>>

\* !response.ok: throw new Error(error.detail)
FetchNotOk ==
    /\ pc = "fetch"
    /\ Settle(Rejected("Execution failed"))
    /\ UNCHANGED <<graphVars, isBuilt, buildError, isChatOpen, verdict>>
    /\ UNCHANGED <<input, clock, request, assistantMsgId, sends, received>>
    /\ UNCHANGED <<body, wire, buffer, fullContent, delivered>>
    /\ UNCHANGED <<renderVars, appVars>>

\* the response is ok and has a body: the reader is created
FetchOk(b) ==
    /\ pc = "fetch"
    /\ pc' = "read"
    /\ received' = received + NumEvents(b)
    /\ body' = b
    /\ wire' = b
    /\ buffer' = <<>>
    /\ fullContent' = <<>>
    /\ UNCHANGED <<graphVars, builderVars, verdict>>
    /\ UNCHANGED <<messages, input, isLoading, clock, request, assistantMsgId, sends>>
    /\ UNCHANGED <<delivered, chatCall>>
    /\ UNCHANGED <<renderVars, appVars>>

\* one turn of the while loop: reader.read() yields the next k characters
ReaderRead(k) ==
    /\ pc = "read"
    /\ k \in 1..Len(wire)
    /\ LET chunk == SubSeq(wire, 1, k)
           lines == SplitLines(buffer \o chunk)
           acc == ProcessLines([full |-> fullContent, msgs |-> messages,
                                calls |-> delivered],
                               AllButLast(lines), assistantMsgId)
       IN  /\ wire' = SubSeq(wire, k + 1, Len(wire))
           /\ buffer' = LastPiece(lines)
           /\ fullContent' = acc.full
           /\ messages' = acc.msgs
           /\ delivered' = acc.calls
    /\ UNCHANGED <<graphVars, builderVars, verdict>>
    /\ UNCHANGED <<input, isLoading, clock, pc, request, assistantMsgId, sends, received>>
    /\ UNCHANGED <<body, chatCall>>
    /\ UNCHANGED <<renderVars, appVars>>

\* reader.read() yields done: return { content: fullContent }
ReaderDone ==
    /\ pc = "read"
    /\ wire = <<>>
    /\ Settle(Resolved)
    /\ UNCHANGED <<graphVars, isBuilt, buildError, isChatOpen, verdict>>
    /\ UNCHANGED <<input, clock, request, assistantMsgId, sends, received>>
    /\ UNCHANGED <<body, wire, buffer, fullContent, delivered>>
    /\ UNCHANGED <<renderVars, appVars>>

\* reader.read() rejects: the connection drops while the body is streaming
ReaderFails ==
    /\ pc = "read"
    /\ Settle(Rejected("network error"))
    /\ UNCHANGED <<graphVars, isBuilt, buildError, isChatOpen, verdict>>
    /\ UNCHANGED <<input, clock, request, assistantMsgId, sends, received>>
    /\ UNCHANGED <<body, wire, buffer, fullContent, delivered>>
    /\ UNCHANGED <<renderVars, appVars>>

(***************************************************************************)
(* SpecChat: the chat window of a stack built from the plain chain         *)
(***************************************************************************)
PlainChainNodes ==
    <<NewNode(1, UserQuery), NewNode(2, LLMEngine), NewNode(3, Output)>>
PlainChainEdges == {[source |-> 1, target |-> 2], [source |-> 2, target |-> 3]}

InitChat ==
    /\ nodes = PlainChainNodes
    /\ edges = PlainChainEdges
    /\ selectedNode = <<>>
    /\ nextId = 4
    /\ verdict = <<validateWorkflow(PlainChainNodes, PlainChainEdges)>>
    /\ isValid = verdict[1].valid
    /\ isBuilt = verdict[1].valid
    /\ buildError = "null"
    /\ isChatOpen = FALSE
    /\ toast = <<>>
    /\ ChatInit
    /\ RenderIdle
    /\ AppInBuilder

NextChat ==
    \/ OpenChat
    \/ CloseChat
    \/ \E text \in InputTexts : TypeInput(text)
    \/ HandleSend
    \/ FetchFails
    \/ FetchNotOk
    \/ \E b \in Bodies(MaxLines - received) : FetchOk(b)
    \/ \E k \in 1..Len(wire) : ReaderRead(k)
    \/ ReaderDone
    \/ ReaderFails

SpecChat == InitChat /\ [][NextChat]_vars

\* event lines in one response body of the fair specification
MaxBodyLines == 1

\* the steps in which a promise of the pending call settles: fetch() resolves
\* or rejects, reader.read() resolves with a value, with done, or rejects;
\* the continuations up to handleSend's finally run in the same step; the
\* server sends bodies of at most MaxBodyLines event lines
PromiseSettles ==
    \/ FetchFails
    \/ FetchNotOk
    \/ \E b \in Bodies(IF MaxLines - received < MaxBodyLines
                      THEN MaxLines - received ELSE MaxBodyLines) : FetchOk(b)
    \/ \E k \in 1..Len(wire) : ReaderRead(k)
    \/ ReaderDone
    \/ ReaderFails

NextChatFair ==
    \/ OpenChat
    \/ CloseChat
    \/ \E text \in InputTexts : TypeInput(text)
    \/ HandleSend
    \/ PromiseSettles

\* the chat window when no promise stays pending for ever
FairSpecChat == InitChat /\ [][NextChatFair]_vars /\ WF_vars(PromiseSettles)

(***************************************************************************)
(* SpecEdit: a saved stack is opened, built and chatted with, and the      *)
(* graph is edited while the chat request is in flight                     *)
(***************************************************************************)
Renamed == [label |-> "renamed"]

\* { ...node.data, ...data }
MergeData(old, new) ==
    [f \in DOMAIN old \cup DOMAIN new |-> IF f \in DOMAIN new THEN new[f] ELSE old[f]]

\* nds.map((node) => node.id === nodeId ? { ...node, data: {...} } : node)
updateNodeData(ns, nodeId, data) ==
    [i \in DOMAIN ns |->
        IF ns[i].id = nodeId
        THEN [ns[i] EXCEPT !.data = MergeData(@, data)]
        ELSE ns[i]]

\* mutant: the data object of the node is written in place, and the request
\* in flight, which holds the same object, shows the new data
UpdateNodeData_InPlace(data) ==
    /\ selectedNode # <<>>
    /\ nodes' = updateNodeData(nodes, selectedNode[1].id, data)
    /\ request' = IF request = <<>> THEN request
                  ELSE <<[request[1] EXCEPT
                            !.nodes = updateNodeData(@, selectedNode[1].id, data)]>>
    /\ UNCHANGED <<edges, selectedNode, isValid, nextId, builderVars, verdict>>
    /\ UNCHANGED <<messages, input, isLoading, clock, pc, assistantMsgId, sends, received>>
    /\ UNCHANGED streamVars
    /\ UNCHANGED <<renderVars, appVars>>

\* ConfigPanel's handleChange: onUpdateNode(selectedNode.id, { [field]: value })
UpdateNodeData(data) ==
    /\ selectedNode # <<>>
    /\ nodes' = updateNodeData(nodes, selectedNode[1].id, data)
    /\ UNCHANGED <<edges, selectedNode, isValid, nextId, builderVars, verdict>>
    /\ UNCHANGED <<chatVars, streamVars>>
    /\ UNCHANGED <<renderVars, appVars>>

\* clearWorkflow(), which the hook returns
ClearWorkflow ==
    /\ nodes' = <<>>
    /\ edges' = {}
    /\ selectedNode' = <<>>
    /\ isValid' = FALSE
    /\ UNCHANGED <<nextId, builderVars, verdict>>
    /\ UNCHANGED <<chatVars, streamVars>>
    /\ UNCHANGED <<renderVars, appVars>>

\* the saved stack: its ids were made in an earlier session and are none of
\* the ids addNode makes in this one
SavedChainNodes == <<NewNode(-1, UserQuery), NewNode(-2, LLMEngine), NewNode(-3, Output)>>
SavedChainEdges == {[source |-> -1, target |-> -2], [source |-> -2, target |-> -3]}

\* loadWorkflow(stack.nodes, stack.edges), handleBuild(), the chat opened;
\* the nodes added before (and deleted again) leave one fresh id in the bound
InitEdit ==
    /\ nodes = SavedChainNodes
    /\ edges = SavedChainEdges
    /\ selectedNode = <<>>
    /\ nextId = MaxIds
    /\ verdict = <<validateWorkflow(SavedChainNodes, SavedChainEdges)>>
    /\ isValid = verdict[1].valid
    /\ isBuilt = verdict[1].valid
    /\ buildError = "null"
    /\ isChatOpen = TRUE
    /\ toast = <<>>
    /\ ChatInit
    /\ RenderIdle
    /\ AppInBuilder

\* executeApi.chat has been called and has not returned
InFlight == pc # "idle"

NextEdit ==
    \/ \E text \in InputTexts : TypeInput(text)
    \/ HandleSend
    \/ InFlight /\ \E type \in NodeKinds : AddNode(type)
    \/ InFlight /\ \E e \in Connectable(nodes) : OnConnect(e)
    \/ \E i \in DOMAIN nodes : OnNodeClick(i)
    \/ HandleBuild
    \/ InFlight /\ UpdateNodeData(Renamed)
    \/ InFlight /\ DeleteNode
    \/ InFlight /\ ClearWorkflow

SpecEdit == InitEdit /\ [][NextEdit]_vars

(***************************************************************************)
(* ConfigPanel: the fields of the selected node                            *)
(***************************************************************************)
Digits == <<"0", "1", "2", "3", "4", "5", "6", "7", "8", "9">>
IsDigit(c) == \E d \in DOMAIN Digits : Digits[d] = c
DigitValue(c) == (CHOOSE d \in DOMAIN Digits : Digits[d] = c) - 1

\* the value of the digits of text from position i on, up to the first
\* character that is no digit
RECURSIVE DigitsValue(_, _, _)
DigitsValue(text, i, acc) ==
    IF i > Len(text) \/ ~IsDigit(text[i]) THEN acc
    ELSE DigitsValue(text, i + 1, acc * 10 + DigitValue(text[i]))

\* parseInt(e.target.value): an optional sign and the leading digits, NaN
\* when there is no digit
ParseInt(text) ==
    LET neg == text # <<>> /\ text[1] = "-"
        start == IF neg THEN 2 ELSE 1
    IN  IF start > Len(text) \/ ~IsDigit(text[start]) THEN NaN
        ELSE Num((IF neg THEN -1 ELSE 1) * DigitsValue(text, start, 0))

\* what a number field can hold when its onChange fires: the empty field, 0,
\* a negative number, a positive number
NumberTexts == { <<>>, <<"0">>, <<"-", "5">>, <<"5", "0", "0">> }

\* the range input: min 0, max 2, step 0.1; its positions are counted in steps
SliderSteps == 20
\* e.target.value of the range input at step k: "0", "0.1", ... "1", "1.1", ... "2"
SliderTexts ==
    { IF k % 10 = 0 THEN <<Digits[(k \div 10) + 1]>>
      ELSE <<Digits[(k \div 10) + 1], ".", Digits[(k % 10) + 1]>> : k \in 0..SliderSteps }

\* parseFloat(e.target.value) of a slider text, in tenths
ParseFloat(text) ==
    Num(DigitValue(text[1]) * 10 + (IF Len(text) = 3 THEN DigitValue(text[3]) ELSE 0))

\* !data[field]: undefined (the object has no such field), NaN and 0 among
\* the numbers, false among the booleans
Falsy(data, field) ==
    IF field \notin DOMAIN data THEN TRUE
    ELSE IF field \in {"chunkSize", "topK", "temperature"} THEN data[field] \in {NaN, Num(0)}
    ELSE ~data[field]

\* data[field] || fallback
OrElse(data, field, fallback) ==
    IF Falsy(data, field) THEN fallback ELSE data[field]

\* the { [field]: value } objects the panel's onChange handlers pass to
\* handleChange for the node it shows: chunk size and top K of a knowledge
\* base, temperature and the web search toggle of an LLM engine
ConfigEdits ==
    IF selectedNode = <<>> THEN {}
    ELSE IF selectedNode[1].type = KnowledgeBase
    THEN { [chunkSize |-> ParseInt(t)] : t \in NumberTexts }
         \cup { [topK |-> ParseInt(t)] : t \in NumberTexts }
    ELSE IF selectedNode[1].type = LLMEngine
    THEN { [temperature |-> ParseFloat(t)] : t \in SliderTexts }
         \cup { [enableWebSearch |-> Falsy(selectedNode[1].data, "enableWebSearch")] }
    ELSE {}

\* what the panel and the node show
DefaultChunkSize == 1000
DefaultTopK == 5
ChunkSizeShown(data) == OrElse(data, "chunkSize", Num(DefaultChunkSize))
TopKShown(data) == OrElse(data, "topK", Num(DefaultTopK))
TemperatureShown(data) == OrElse(data, "temperature", Num(DefaultTemperature))

(***************************************************************************)
(* SpecConfig: a knowledge base and an LLM engine are dropped on an empty  *)
(* canvas and configured through the panel                                 *)
(***************************************************************************)
InitConfig ==
    /\ nodes = <<NewNode(1, KnowledgeBase), NewNode(2, LLMEngine)>>
    /\ edges = {}
    /\ selectedNode = <<>>
    /\ isValid = FALSE
    /\ nextId = 3
    /\ isBuilt = FALSE
    /\ buildError = "null"
    /\ isChatOpen = FALSE
    /\ toast = <<>>
    /\ verdict = <<>>
    /\ ChatInit
    /\ RenderIdle
    /\ AppInBuilder

NextConfig ==
    \/ \E i \in DOMAIN nodes : OnNodeClick(i)
    \/ ClearSelection
    \/ \E data \in ConfigEdits : UpdateNodeData(data)
    \/ DeleteNode
    \/ ClearWorkflow

SpecConfig == InitConfig /\ [][NextConfig]_vars

(***************************************************************************)
(* The template engine of the execution backend: render(template, bindings) *)
(***************************************************************************)
\* pieces in a template
MaxPieces == 4

\* a template is a sequence of pieces, each a stretch of literal text or one
\* placeholder; a text is the sequence of its non-empty pieces
QueryMark == "{{query}}"
ContextMark == "{{context}}"
Marks == {QueryMark, ContextMark}
MarkName(piece) == IF piece = QueryMark THEN "query" ELSE "context"
Literals == {"Q: "}
Templates(max) == UNION { [1..n -> Literals \cup Marks] : n \in 0..max }

\* bindings: a mapping from some of the placeholder names to string values
AllBindings ==
    { [name \in names |-> IF name = "query" THEN "hi" ELSE "docs"] :
        names \in SUBSET {"query", "context"} }

\* the text of a sequence of pieces
TextOf(pieces) == SelectSeq(pieces, LAMBDA piece : piece # "")

\* mutant: only the first occurrence of each placeholder is replaced
render_FirstOnly(tpl, bnd) ==
    TextOf([i \in DOMAIN tpl |->
        IF tpl[i] \in Marks /\ \A j \in 1..(i - 1) : tpl[j] # tpl[i]
        THEN IF MarkName(tpl[i]) \in DOMAIN bnd THEN bnd[MarkName(tpl[i])] ELSE ""
        ELSE tpl[i]])

\* render(template, bindings): every {{name}} is replaced by the bound value,
\* or by the empty string when the name is unbound; one pass, no expansion
\* of what was put in
render(tpl, bnd) ==
    TextOf([i \in DOMAIN tpl |->
        IF tpl[i] \in Marks
        THEN IF MarkName(tpl[i]) \in DOMAIN bnd THEN bnd[MarkName(tpl[i])] ELSE ""
        ELSE tpl[i]])

\* one call of render
Render ==
    /\ rendered = <<>>
    /\ rendered' = <<render(template, bindings)>>
    /\ UNCHANGED <<template, bindings, appVars>>
    /\ UNCHANGED <<graphVars, builderVars, verdict, chatVars, streamVars>>

InitRender ==
    /\ template \in Templates(MaxPieces)
    /\ bindings \in AllBindings
    /\ rendered = <<>>
    /\ nodes = <<>>
    /\ edges = {}
    /\ selectedNode = <<>>
    /\ isValid = FALSE
    /\ nextId = 1
    /\ isBuilt = FALSE
    /\ buildError = "null"
    /\ isChatOpen = FALSE
    /\ toast = <<>>
    /\ verdict = <<>>
    /\ ChatInit
    /\ AppInBuilder

SpecRender == InitRender /\ [][Render]_vars

(***************************************************************************)
(* App: the dashboard, the stacks and the stacksApi calls                  *)
(***************************************************************************)
\* stacks the backend creates
MaxStacks == 2
\* a stack: its id and its graph, empty when created ({ nodes: [], edges: [] })
\* and the graph of the builder once saved
BuilderGraph == "config.nodes"
NewStack(id) == [id |-> id, nodes |-> "[]"]

\* the calls in flight, by stacksApi method, one of each at most; a call is
\* sent, then answered by the backend (ok or failed), then its promise settles
ApiMethods == {"create", "update", "delete", "getAll"}
Sent(arg) == [arg |-> arg, state |-> "sent", result |-> <<>>]
Answered(m, state) == pending[m] # <<>> /\ pending[m][1].state = state

\* what App renders: the loading screen, the error screen, the dashboard or
\* the builder
LoadingShown == loading /\ currentView = VIEWS.DASHBOARD
ErrorShown == ~LoadingShown /\ error # "null" /\ currentView = VIEWS.DASHBOARD /\ stacks = <<>>
DashboardShown == ~LoadingShown /\ ~ErrorShown /\ currentView = VIEWS.DASHBOARD
BuilderShown == currentView = VIEWS.BUILDER

\* window.confirm is open: nothing else runs in the page
Blocked == confirming # <<>>

graphIdle == <<graphVars, builderVars, verdict, chatVars, streamVars, renderVars>>

\* fetchStacks() up to its await
fetchStacks ==
    /\ loading' = TRUE
    /\ pending' = [pending EXCEPT !.getAll = <<Sent(<<>>)>>]

\* handleCreateStack() up to its await
HandleCreateStack ==
    /\ ~Blocked
    /\ DashboardShown
    /\ pending.create = <<>>
    /\ created < MaxStacks
    /\ pending' = [pending EXCEPT !.create = <<Sent(<<>>)>>]
    /\ UNCHANGED <<currentView, stacks, currentStack, loading, error, confirming, store, created>>
    /\ UNCHANGED graphIdle

\* handleEditStack(stack), stack being a card of the dashboard
HandleEditStack(i) ==
    /\ ~Blocked
    /\ DashboardShown
    /\ i \in DOMAIN stacks
    /\ currentStack' = <<stacks[i]>>
    /\ currentView' = VIEWS.BUILDER
    /\ UNCHANGED <<stacks, loading, error, confirming, pending, store, created>>
    /\ UNCHANGED graphIdle

\* WorkflowBuilder's handleSave and handleSaveStack(updatedStack) up to its
\* await: the stack of the builder with the graph as edited
HandleSaveStack ==
    /\ ~Blocked
    /\ BuilderShown
    /\ currentStack # <<>>
    /\ pending.update = <<>>
    /\ LET updatedStack == [currentStack[1] EXCEPT !.nodes = BuilderGraph]
       IN  pending' = [pending EXCEPT !.update = <<Sent(<<updatedStack>>)>>]
    /\ UNCHANGED <<currentView, stacks, currentStack, loading, error, confirming, store, created>>
    /\ UNCHANGED graphIdle

\* handleDeleteStack(stackId): window.confirm opens
HandleDeleteStack(i) ==
    /\ ~Blocked
    /\ DashboardShown
    /\ i \in DOMAIN stacks
    /\ pending.delete = <<>>
    /\ confirming' = <<stacks[i].id>>
    /\ UNCHANGED <<currentView, stacks, currentStack, loading, error, pending, store, created>>
    /\ UNCHANGED graphIdle

\* window.confirm returns true: stacksApi.delete(stackId) is called
ConfirmDelete ==
    /\ Blocked
    /\ pending' = [pending EXCEPT !.delete = <<Sent(confirming)>>]
    /\ confirming' = <<>>
    /\ UNCHANGED <<currentView, stacks, currentStack, loading, error, store, created>>
    /\ UNCHANGED graphIdle

\* window.confirm returns false
DeclineDelete ==
    /\ Blocked
    /\ confirming' = <<>>
    /\ UNCHANGED <<currentView, stacks, currentStack, loading, error, pending, store, created>>
    /\ UNCHANGED graphIdle

\* handleBack()
HandleBack ==
    /\ ~Blocked
    /\ BuilderShown
    /\ pending.getAll = <<>>
    /\ currentView' = VIEWS.DASHBOARD
    /\ currentStack' = <<>>
    /\ fetchStacks
    /\ UNCHANGED <<stacks, error, confirming, store, created>>
    /\ UNCHANGED graphIdle

\* the Retry Connection button of the error screen
RetryConnection ==
    /\ ~Blocked
    /\ ErrorShown
    /\ pending.getAll = <<>>
    /\ fetchStacks
    /\ UNCHANGED <<currentView, stacks, currentStack, error, confirming, store, created>>
    /\ UNCHANGED graphIdle

\* the backend: POST /stacks, PUT /stacks/{id}, DELETE /stacks/{id}, GET /stacks
Answer(m, state, result) ==
    pending' = [pending EXCEPT ![m] = <<[@[1] EXCEPT !.state = state, !.result = result]>>]

BackendAnswers(m) ==
    /\ Answered(m, "sent")
    /\ LET arg == pending[m][1].arg
           StoreIds == { store[i].id : i \in DOMAIN store }
       IN  IF m = "create"
           THEN /\ store' = Append(store, NewStack(created + 1))
                /\ created' = created + 1
                /\ Answer(m, "ok", <<NewStack(created + 1)>>)
           ELSE IF m = "update"
           THEN IF arg[1].id \in StoreIds
                THEN /\ store' = [i \in DOMAIN store |->
                                     IF store[i].id = arg[1].id THEN arg[1] ELSE store[i]]
                     /\ Answer(m, "ok", arg)
                     /\ UNCHANGED created
                ELSE /\ Answer(m, "failed", <<>>)
                     /\ UNCHANGED <<store, created>>
           ELSE IF m = "delete"
           THEN IF arg[1] \in StoreIds
                THEN /\ store' = SelectSeq(store, LAMBDA st : st.id # arg[1])
                     /\ Answer(m, "ok", <<>>)
                     /\ UNCHANGED created
                ELSE /\ Answer(m, "failed", <<>>)
                     /\ UNCHANGED <<store, created>>
           ELSE /\ Answer(m, "ok", <<store>>)
                /\ UNCHANGED <<store, created>>
    /\ UNCHANGED <<currentView, stacks, currentStack, loading, error, confirming>>
    /\ UNCHANGED graphIdle

\* the backend cannot be reached, or answers with an error status
CallFails(m) ==
    /\ Answered(m, "sent")
    /\ Answer(m, "failed", <<>>)
    /\ UNCHANGED <<currentView, stacks, currentStack, loading, error, confirming, store, created>>
    /\ UNCHANGED graphIdle

Settles(m) == pending' = [pending EXCEPT ![m] = <<>>]

\* handleCreateStack after `await stacksApi.create(...)` resolved
CreateResolves ==
    /\ ~Blocked
    /\ Answered("create", "ok")
    /\ LET createdStack == pending.create[1].result[1]
       IN  /\ stacks' = Append(stacks, createdStack)
           /\ currentStack' = <<createdStack>>
           /\ currentView' = VIEWS.BUILDER
    /\ Settles("create")
    /\ UNCHANGED <<loading, error, confirming, store, created>>
    /\ UNCHANGED graphIdle

\* handleCreateStack's catch
CreateRejects ==
    /\ ~Blocked
    /\ Answered("create", "failed")
    /\ Settles("create")
    /\ UNCHANGED <<currentView, stacks, currentStack, loading, error, confirming, store, created>>
    /\ UNCHANGED graphIdle

\* prev.findIndex((s) => s.id === id), counted from 1; 0 when there is none
findIndex(prev, id) ==
    IF \E i \in DOMAIN prev : prev[i].id = id
    THEN CHOOSE i \in DOMAIN prev :
             prev[i].id = id /\ \A j \in 1..(i - 1) : prev[j].id # id
    ELSE 0

\* the updater handleSaveStack passes to setStacks
SavedInto(prev, id, savedStack) ==
    LET existingIndex == findIndex(prev, id)
    IN  IF existingIndex >= 1
        THEN [prev EXCEPT ![existingIndex] = savedStack]
        ELSE Append(prev, savedStack)

\* handleSaveStack after `await stacksApi.update(...)` resolved
SaveResolves ==
    /\ ~Blocked
    /\ Answered("update", "ok")
    /\ LET updatedStack == pending.update[1].arg[1]
           savedStack == pending.update[1].result[1]
       IN  /\ stacks' = SavedInto(stacks, updatedStack.id, savedStack)
           /\ currentStack' = <<savedStack>>
    /\ Settles("update")
    /\ UNCHANGED <<currentView, loading, error, confirming, store, created>>
    /\ UNCHANGED graphIdle

\* handleSaveStack's catch
SaveRejects ==
    /\ ~Blocked
    /\ Answered("update", "failed")
    /\ Settles("update")
    /\ UNCHANGED <<currentView, stacks, currentStack, loading, error, confirming, store, created>>
    /\ UNCHANGED graphIdle

\* handleDeleteStack after `await stacksApi.delete(stackId)` resolved
DeleteResolves ==
    /\ ~Blocked
    /\ Answered("delete", "ok")
    /\ stacks' = SelectSeq(stacks, LAMBDA st : st.id # pending.delete[1].arg[1])
    /\ Settles("delete")
    /\ UNCHANGED <<currentView, currentStack, loading, error, confirming, store, created>>
    /\ UNCHANGED graphIdle

\* mutant: the stack is taken off the list although the call failed
DeleteRejects_Removes ==
    /\ ~Blocked
    /\ Answered("delete", "failed")
    /\ stacks' = SelectSeq(stacks, LAMBDA st : st.id # pending.delete[1].arg[1])
    /\ Settles("delete")
    /\ UNCHANGED <<currentView, currentStack, loading, error, confirming, store, created>>
    /\ UNCHANGED graphIdle

\* handleDeleteStack's catch
DeleteRejects ==
    /\ ~Blocked
    /\ Answered("delete", "failed")
    /\ Settles("delete")
    /\ UNCHANGED <<currentView, stacks, currentStack, loading, error, confirming, store, created>>
    /\ UNCHANGED graphIdle

\* fetchStacks after `await stacksApi.getAll()` resolved, and its finally
FetchResolves ==
    /\ ~Blocked
    /\ Answered("getAll", "ok")
    /\ stacks' = pending.getAll[1].result[1]
    /\ error' = "null"
    /\ loading' = FALSE
    /\ Settles("getAll")
    /\ UNCHANGED <<currentView, currentStack, confirming, store, created>>
    /\ UNCHANGED graphIdle

\* fetchStacks' catch, and its finally
FetchRejects ==
    /\ ~Blocked
    /\ Answered("getAll", "failed")
    /\ error' = "Failed to connect to backend server. Please ensure it is running"
    /\ loading' = FALSE
    /\ Settles("getAll")
    /\ UNCHANGED <<currentView, stacks, currentStack, confirming, store, created>>
    /\ UNCHANGED graphIdle

\* App is mounted: the effect has called fetchStacks(); the backend holds no
\* stack yet
InitApp ==
    /\ currentView = VIEWS.DASHBOARD
    /\ stacks = <<>>
    /\ currentStack = <<>>
    /\ loading = TRUE
    /\ error = "null"
    /\ confirming = <<>>
    /\ pending = [m \in ApiMethods |-> IF m = "getAll" THEN <<Sent(<<>>)>> ELSE <<>>]
    /\ store = <<>>
    /\ created = 0
    /\ nodes = <<>>
    /\ edges = {}
    /\ selectedNode = <<>>
    /\ isValid = FALSE
    /\ nextId = 1
    /\ isBuilt = FALSE
    /\ buildError = "null"
    /\ isChatOpen = FALSE
    /\ toast = <<>>
    /\ verdict = <<>>
    /\ ChatInit
    /\ RenderIdle

NextApp ==
    \/ HandleCreateStack
    \/ \E i \in DOMAIN stacks : HandleEditStack(i)
    \/ HandleSaveStack
    \/ \E i \in DOMAIN stacks : HandleDeleteStack(i)
    \/ ConfirmDelete
    \/ DeclineDelete
    \/ HandleBack
    \/ RetryConnection
    \/ \E m \in ApiMethods : BackendAnswers(m)
    \/ \E m \in ApiMethods : CallFails(m)
    \/ CreateResolves
    \/ CreateRejects
    \/ SaveResolves
    \/ SaveRejects
    \/ DeleteResolves
    \/ DeleteRejects
    \/ FetchResolves
    \/ FetchRejects

SpecApp == InitApp /\ [][NextApp]_vars

(***************************************************************************)
(* Properties of validateWorkflow (checked under SpecValidate)             *)
(***************************************************************************)
RequiredKinds == {UserQuery, LLMEngine, Output}

\* validateWorkflow has been called on the current graph
Validated == verdict # <<>>
Result == verdict[1]

NodeIds(ns) == { ns[i].id : i \in DOMAIN ns }
IdsOfKind(ns, kind) == { ns[i].id : i \in { j \in DOMAIN ns : ns[j].type = kind } }
CountOfKind(ns, kind) == Cardinality(IdsOfKind(ns, kind))

\* the required kinds the graph has no node of
MissingKinds(ns) == { k \in RequiredKinds : IdsOfKind(ns, k) = {} }

\* the component kinds an error message names
KindsNamed(msg) ==
    IF msg = ErrMissingComponents THEN {UserQuery, LLMEngine, Output}
    ELSE IF msg = ErrLLMToOutput THEN {LLMEngine, Output}
    ELSE IF msg = ErrNoInputToLLM THEN {LLMEngine}
    ELSE {}

HasDuplicate(ns) == \E k \in PanelKinds : CountOfKind(ns, k) > 1

\* C2 as stated: a graph with two or more nodes of one kind is never
\* reported valid.
C2_DuplicateFails ==
    (Validated /\ HasDuplicate(nodes)) => ~Result.valid

\* the set of node ids reachable from the ids in `from` along es
RECURSIVE Reach(_, _)
Reach(es, from) ==
    LET next == from \cup { e.target : e \in { d \in es : d.source \in from } }
    IN  IF next = from THEN from ELSE Reach(es, next)

\* ids reachable from id by at least one edge
ReachFrom(es, id) == Reach(es, { e.target : e \in { d \in es : d.source = id } })

\* C3: a graph with the three required kinds in which no edge targets an
\* LLM Engine node fails validation with one of the two missing-edge errors.
C3_NoInputFails ==
    (/\ Validated
     /\ MissingKinds(nodes) = {}
     /\ \A e \in edges : e.target \notin IdsOfKind(nodes, LLMEngine)) =>
        /\ ~Result.valid
        /\ Result.error \in {ErrNoInputToLLM, ErrLLMToOutput}

\* the LLM Engine feeds Output but nothing feeds the LLM Engine: rejected for
\* the missing input
C3_Witness ==
    /\ Validated
    /\ MissingKinds(nodes) = {}
    /\ \A e \in edges : e.target \notin IdsOfKind(nodes, LLMEngine)
    /\ \E e \in edges : e.source \in IdsOfKind(nodes, LLMEngine)
                        /\ e.target \in IdsOfKind(nodes, Output)
    /\ Result = Invalid(ErrNoInputToLLM)

\* C4: a graph with the three required kinds and no edge from an LLM Engine
\* node to an Output node fails with the 'LLM Engine to Output' error,
\* whatever other edges exist.
C4_NoLlmToOutputFails ==
    (/\ Validated
     /\ MissingKinds(nodes) = {}
     /\ \A e \in edges : ~(/\ e.source \in IdsOfKind(nodes, LLMEngine)
                            /\ e.target \in IdsOfKind(nodes, Output))) =>
        Result = Invalid(ErrLLMToOutput)

\* other edges exist (one into the LLM Engine, one out of it) and the graph
\* is still rejected for the missing LLM-to-Output edge
C4_Witness ==
    /\ Validated
    /\ MissingKinds(nodes) = {}
    /\ \A e \in edges : ~(/\ e.source \in IdsOfKind(nodes, LLMEngine)
                           /\ e.target \in IdsOfKind(nodes, Output))
    /\ \E e \in edges : e.target \in IdsOfKind(nodes, LLMEngine)
    /\ \E e \in edges : e.source \in IdsOfKind(nodes, LLMEngine)
    /\ Result = Invalid(ErrLLMToOutput)

\* the graph User Query -> LLM Engine -> Output and nothing else
IsPlainChain(ns, es) ==
    /\ Len(ns) = 3
    /\ \A k \in RequiredKinds : CountOfKind(ns, k) = 1
    /\ \E u \in IdsOfKind(ns, UserQuery), l \in IdsOfKind(ns, LLMEngine),
          o \in IdsOfKind(ns, Output) :
            es = {[source |-> u, target |-> l], [source |-> l, target |-> o]}

C6_AcceptedHasPath ==
    (Validated /\ Result.valid) =>
        \E u \in IdsOfKind(nodes, UserQuery), l \in IdsOfKind(nodes, LLMEngine),
           o \in IdsOfKind(nodes, Output) :
            /\ l \in ReachFrom(edges, u)
            /\ o \in ReachFrom(edges, l)

\* one node of each required kind, linked User Query -> LLM Engine -> Output
HasPlainChain(ns, es) ==
    /\ \A k \in RequiredKinds : CountOfKind(ns, k) = 1
    /\ SomeEdge(es, FindOfKind(ns, UserQuery).id, FindOfKind(ns, LLMEngine).id)
    /\ SomeEdge(es, FindOfKind(ns, LLMEngine).id, FindOfKind(ns, Output).id)

\* the Knowledge Base nodes no path from the User Query leads to
UnreachedKb(ns, es) ==
    IdsOfKind(ns, KnowledgeBase) \ ReachFrom(es, FindOfKind(ns, UserQuery).id)

\* C14: a graph with the three required nodes linked User Query -> LLM
\* Engine -> Output and one Knowledge Base node that cannot be reached from
\* the User Query, with or without edges of its own, is accepted.
C14_DisconnectedKbAccepted ==
    (/\ Validated
     /\ HasPlainChain(nodes, edges)
     /\ CountOfKind(nodes, KnowledgeBase) = 1
     /\ UnreachedKb(nodes, edges) # {}) =>
        Result = Valid

\* the Knowledge Base feeds the LLM Engine but is not fed by the User Query,
\* and the graph was accepted
C14_Witness ==
    /\ Validated
    /\ HasPlainChain(nodes, edges)
    /\ CountOfKind(nodes, KnowledgeBase) = 1
    /\ UnreachedKb(nodes, edges) # {}
    /\ \E e \in edges : /\ e.source \in IdsOfKind(nodes, KnowledgeBase)
                         /\ e.target \in IdsOfKind(nodes, LLMEngine)
    /\ Result = Valid

OutDegree(es, id) == Cardinality({ e \in es : e.source = id })
InDegree(es, id) == Cardinality({ e \in es : e.target = id })

\* the nodes on the walk from a User Query node along the out-edges
OnWalk(ns, es) ==
    UNION { {u} \cup ReachFrom(es, u) : u \in IdsOfKind(ns, UserQuery) }

\* a node on the walk has more than one out-edge or more than one in-edge
Branching(ns, es) ==
    \E id \in OnWalk(ns, es) : OutDegree(es, id) > 1 \/ InDegree(es, id) > 1

\* C15 as stated: no graph that branches on the walk from the User Query is
\* reported valid.
C15_BranchingFails ==
    (Validated /\ Branching(nodes, edges)) => ~Result.valid

\* the node list stored in the order p
Reordered(ns, p) == [i \in DOMAIN ns |-> ns[p[i]]]

\* C17 as stated: the verdict is the same for every order in which the nodes
\* of the graph are stored.
C17_OrderIndependent ==
    Validated =>
        \A p \in Permutations(DOMAIN nodes) :
            validateWorkflow(Reordered(nodes, p), edges) = Result

(***************************************************************************)
(* Properties of the editor and the build (checked under Spec and SpecEdit) *)
(***************************************************************************)
\* C7 as stated: the nodes and edges of every chat request that is issued
\* pass validateWorkflow.
C7_RequestPassesValidation ==
    request # <<>> => validateWorkflow(request[1].nodes, request[1].edges).valid

\* C16 as stated: a node of a kind other than userQuery, knowledgeBase,
\* llmEngine and output never enters the graph.
C16_UnknownKindRejected ==
    \A i \in DOMAIN nodes : nodes[i].type \in PanelKinds

\* a step that records a verdict: handleBuild ran
BuildStep ==
    \/ verdict' # verdict
    \/ isBuilt' # isBuilt
    \/ buildError' # buildError

\* C18: a build records the verdict validateWorkflow gives for the current
\* nodes and edges, leaves the nodes, the edges and the selected node as they
\* were, and sends no chat request.
C18_BuildOnlyValidates ==
    [][BuildStep => /\ verdict' = <<validateWorkflow(nodes, edges)>>
                    /\ nodes' = nodes
                    /\ edges' = edges
                    /\ selectedNode' = selectedNode
                    /\ request' = request
                    /\ pc' = pc
                    /\ sends' = sends]_vars

\* a graph with edges was built and rejected while one of its nodes was
\* selected and a request was in flight: the selection, the graph and the
\* one request are still there
C18_Witness ==
    /\ verdict = <<validateWorkflow(nodes, edges)>>
    /\ buildError = ErrNoInputToLLM
    /\ ~isBuilt
    /\ selectedNode # <<>>
    /\ edges # {}
    /\ InFlight
    /\ sends = 1

(***************************************************************************)
(* Properties of the chat stream (checked under SpecChat)                  *)
(***************************************************************************)
\* the texts of the chunk events among the onChunk calls, in call order
ChunkTexts(calls) ==
    LET chunks == SelectSeq(calls, LAMBDA d : d.chunk # "")
    IN  [i \in DOMAIN chunks |-> chunks[i].chunk]

\* handleSend has settled for the last send
Settled == sends > 0 /\ pc = "idle"

\* the assistant message of the last send
AssistantMsg ==
    messages[CHOOSE i \in DOMAIN messages : messages[i].id = assistantMsgId]

\* b is a prefix of the body
IsPrefix(p, b) == Len(p) <= Len(b) /\ SubSeq(b, 1, Len(p)) = p

\* the body opens with two chunk events and an error event
ErrorAfterTwo(b) ==
    IsPrefix(<<OpenChunk[1], RB, NL, OpenChunk[2], RB, NL, OpenError, RB, NL>>, b)

\* C8 as stated: when the stream carries an error event after two fragments,
\* no fragment that follows the error event is delivered, and the call does
\* not end as a clean completion.
C8_ErrorEndsStream ==
    ErrorAfterTwo(body) =>
        /\ \A i \in DOMAIN delivered : delivered[i].chunk \in {"", FragNames[1], FragNames[2]}
        /\ chatCall.state # "resolved"

\* C9 as stated: when executeApi.chat rejects, the assistant message of that
\* send ends as an explicit error carrying a message, not as a clean
\* completion.
C9_RejectionShownAsError ==
    (Settled /\ chatCall.state = "rejected") =>
        /\ AssistantMsg.isError
        /\ AssistantMsg.content # <<>>
        /\ ~AssistantMsg.isStreaming

\* C10: the fragments reach onChunk in the order of their lines in the
\* stream, and the assistant message holds their texts in that same order.
C10_FragmentsInOrder ==
    sends > 0 =>
        LET texts == ChunkTexts(delivered)
        IN  /\ \A i, j \in DOMAIN texts :
                  i < j => FragIndex(texts[i]) < FragIndex(texts[j])
            /\ AssistantMsg.content = texts

\* a stream was read to its end and three fragments, not all adjacent in the
\* stream, were delivered in stream order
C10_Witness ==
    /\ Settled
    /\ chatCall.state = "resolved"
    /\ ChunkTexts(delivered) = <<FragNames[1], FragNames[3], FragNames[4]>>
    /\ AssistantMsg.content = <<FragNames[1], FragNames[3], FragNames[4]>>

\* the chat was closed while the response of the pending send was streaming,
\* after at least one fragment had been delivered
Abandoned ==
    /\ ~isChatOpen
    /\ pc = "read"
    /\ ChunkTexts(delivered) # <<>>

\* C11 as stated: once the chat is closed after the first fragment, no later
\* fragment is delivered or appended to the assistant message, and the run
\* is settled neither as a completion nor as an error.
C11_CancelHalts ==
    [][Abandoned => /\ messages' = messages
                    /\ delivered' = delivered
                    /\ chatCall' = chatCall]_vars

\* the texts of the chunk events of a body, in the order of their lines
BodyChunkTexts(b) ==
    LET opens == SelectSeq(b, LAMBDA c : c \in OpenChunks)
    IN  [i \in DOMAIN opens |-> ChunkText(opens[i])]

\* C13 as stated: when the response body is in the README's framing (every
\* event on a line behind 'data: ', the done / metadata event last) and has
\* been read to its end, every chunk of the body has been passed to onChunk
\* and the returned content is the concatenation of the chunks.
C13_SseChunksDelivered ==
    (/\ Settled
     /\ chatCall.state = "resolved"
     /\ body \in SseBodies(MaxLines)) =>
        /\ ChunkTexts(delivered) = BodyChunkTexts(body)
        /\ fullContent = BodyChunkTexts(body)

\* C20: while the response of a request is read, and when the request
\* settles, the content of every message but the assistant message made for
\* this request stays as it was, and no message is added.
C20_RunsIndependent ==
    [][pc = "read" =>
          /\ Len(messages') = Len(messages)
          /\ \A i \in DOMAIN messages :
                i # 2 * sends => messages'[i].content = messages[i].content]_vars

\* two requests have streamed fragments, each into its own assistant
\* message, although the second user message has the id of the first
\* assistant message
C20_Witness ==
    /\ sends = 2
    /\ Len(messages) = 4
    /\ messages[2].content = <<FragNames[1]>>
    /\ messages[4].content = <<FragNames[1], FragNames[2]>>
    /\ messages[3].id = messages[2].id
    /\ Settled

\* the body is a stream of JSON lines (no line is behind 'data: ')
IsJsonLines(b) == \A i \in DOMAIN b : b[i] # SsePrefix

\* the number of metadata events among the onChunk calls, and in a body
MetaCalls(calls) == Cardinality({ i \in DOMAIN calls : calls[i].metadata })
BodyMetaEvents(b) == Cardinality({ i \in DOMAIN b : b[i] = OpenMeta })

\* the stream of the last send was read to its end
ReadToEnd == Settled /\ chatCall.state = "resolved"

\* C23: a completion metadata event on a stream of JSON lines is not treated
\* as an error: when the stream has been read to its end the assistant
\* message is no error, every metadata event was passed to onChunk exactly
\* once, and the answer is the text of the fragments alone.
C23_MetadataPassedOnce ==
    (ReadToEnd /\ IsJsonLines(body) /\ BodyMetaEvents(body) > 0) =>
        /\ ~AssistantMsg.isError
        /\ MetaCalls(delivered) = BodyMetaEvents(body)
        /\ fullContent = ChunkTexts(delivered)
        /\ AssistantMsg.content = ChunkTexts(delivered)

\* the part of the body the reader has been given so far
Consumed == SubSeq(body, 1, Len(body) - Len(wire))

\* what the loop body does when the text arrives in a single read
OneRead(text) ==
    ProcessLines([full |-> <<>>, msgs |-> <<>>, calls |-> <<>>],
                 AllButLast(SplitLines(text)), assistantMsgId)

\* C24: the onChunk calls and the content do not depend on how the body is
\* split into reads: whatever the reads were, the calls made and the content
\* gathered so far are those of a single read of the same text, and the rest
\* of the text is in the buffer.
C24_SplitIndependent ==
    (pc = "read" \/ (Settled /\ body # <<>>)) =>
        /\ delivered = OneRead(Consumed).calls
        /\ fullContent = OneRead(Consumed).full
        /\ buffer = SplitLines(Consumed)[Len(SplitLines(Consumed))]

\* a read has ended between the opening and the closing of the second line,
\* after the fragment of the first line was delivered
C24_Witness ==
    /\ pc = "read"
    /\ buffer = <<OpenChunk[2]>>
    /\ ChunkTexts(delivered) = <<FragNames[1]>>

\* C25 as stated: no event is lost: when a stream of JSON lines has been
\* read to its end, every chunk and every metadata event of the body has
\* been passed to onChunk exactly once, the one on the last line included
\* when no newline follows it.
C25_NoEventLost ==
    (ReadToEnd /\ IsJsonLines(body)) =>
        /\ ChunkTexts(delivered) = BodyChunkTexts(body)
        /\ MetaCalls(delivered) = BodyMetaEvents(body)

\* C26: while a request is in flight (isLoading is true, which it is
\* exactly while executeApi.chat has not returned), and while the input is
\* empty or whitespace only, no step starts a request or adds a message to
\* the list: at most one request is in flight.
C26_SendGuarded ==
    [][/\ isLoading' <=> pc' # "idle"
       /\ (isLoading \/ Trim(input) = "") =>
             /\ sends' = sends
             /\ request' = request
             /\ assistantMsgId' = assistantMsgId
             /\ Len(messages') = Len(messages)
             /\ \A i \in DOMAIN messages :
                   /\ messages'[i].id = messages[i].id
                   /\ messages'[i].role = messages[i].role]_vars

\* the second request is in flight and its response is being read
C26_Witness ==
    /\ isLoading
    /\ pc = "read"
    /\ sends = 2
    /\ Trim(input) = ""
    /\ delivered # <<>>

\* no message of the list is shown as streaming
NoneStreaming == \A i \in DOMAIN messages : ~messages[i].isStreaming

\* C27: every send that started a request reaches a terminal state: when
\* the promises of the call settle, isLoading becomes false again, and
\* whenever isLoading is false no message has isStreaming = true.
C27_SendTerminates ==
    /\ [](~isLoading => NoneStreaming)
    /\ isLoading ~> ~isLoading

\* the second send has ended with a rejected call, the first one with a
\* stream read to its end
C27_Witness ==
    /\ Settled
    /\ sends = 2
    /\ chatCall.state = "rejected"
    /\ ~isLoading
    /\ Len(messages) = 4
    /\ messages[2].content # <<>>

(***************************************************************************)
(* Properties of the request in flight (checked under SpecEdit)            *)
(***************************************************************************)
\* C12: while a chat request is in flight, no step (addNode, updateNodeData,
\* deleteNode, onConnect, clearWorkflow, a node click) changes the query,
\* nodes and edges the request carries: they stay those of the graph at the
\* moment of the send.
C12_SnapshotFixed ==
    [][InFlight => request' = request]_vars

\* a request that carries the saved chain is in flight while the graph has
\* lost a node and an edge, gained a node, and had a label changed
C12_Witness ==
    /\ InFlight
    /\ request = <<ChatRequest("hello", SavedChainNodes, SavedChainEdges)>>
    /\ \E i \in DOMAIN nodes : nodes[i].id > 0
    /\ \E i \in DOMAIN nodes : nodes[i].id < 0 /\ nodes[i].data = Renamed
    /\ Len(SelectSeq(nodes, LAMBDA n : n.id < 0)) < Len(SavedChainNodes)
    /\ edges # SavedChainEdges

\* C19: every edge starts and ends at a node that is in the graph, and no
\* two nodes have the same id.
C19_EdgesBetweenNodes ==
    /\ \A e \in edges : e.source \in NodeIds(nodes) /\ e.target \in NodeIds(nodes)
    /\ Cardinality(NodeIds(nodes)) = Len(nodes)

\* a saved node that had edges was deleted, a new node was added and
\* connected, and an edge of the saved chain is still there
C19_Witness ==
    /\ Len(SelectSeq(nodes, LAMBDA n : n.id < 0)) = Len(SavedChainNodes) - 1
    /\ \E e \in edges : e.source > 0 \/ e.target > 0
    /\ edges \cap SavedChainEdges # {}

(***************************************************************************)
(* Properties of the configuration panel (checked under SpecConfig)        *)
(***************************************************************************)
\* the value is a number above zero
IsPositiveInteger(value) == value # NaN /\ value[1] > 0

\* C21: after any sequence of configuration edits, the chunk size and the
\* top K of every knowledge base node of the workflow configuration are
\* positive integers; a field the user never set is not in the data, and
\* stands for its default of 1000 or 5
C21_PositiveIntegers ==
    LET config == getWorkflowConfig(nodes, edges)
    IN  \A i \in DOMAIN config.nodes :
            config.nodes[i].type = KnowledgeBase =>
                /\ IsPositiveInteger(ChunkSizeShown(config.nodes[i].data))
                /\ IsPositiveInteger(TopKShown(config.nodes[i].data))

\* C28 as stated: whenever a node is selected, a node with its id is in
\* nodes and the data the panel reads is that node's data.
C28_SelectionInSync ==
    selectedNode # <<>> =>
        \E i \in DOMAIN nodes :
            /\ nodes[i].id = selectedNode[1].id
            /\ nodes[i].data = selectedNode[1].data

\* C29 as stated: for every temperature the slider can store, the
\* temperature the LLM Engine node shows is the temperature in its data.
C29_ShownIsStored ==
    \A i \in DOMAIN nodes :
        (nodes[i].type = LLMEngine /\ "temperature" \in DOMAIN nodes[i].data) =>
            TemperatureShown(nodes[i].data) = nodes[i].data.temperature

(***************************************************************************)
(* Properties of the template engine (checked under SpecRender)            *)
(***************************************************************************)
\* how often the piece occurs
Occurrences(pieces, piece) == Cardinality({ i \in DOMAIN pieces : pieces[i] = piece })

\* what the placeholder stands for under the bindings
ValueFor(mark, bnd) == IF MarkName(mark) \in DOMAIN bnd THEN bnd[MarkName(mark)] ELSE ""

\* C22: rendering replaces every occurrence of {{query}} and {{context}} by
\* the bound value and an unbound placeholder by the empty string: no
\* placeholder is left, each bound value stands once for each occurrence of
\* its placeholder, the literal text is kept, "Q: {{query}}" with query = "hi"
\* gives "Q: hi" and with no bindings gives "Q: "
C22_RenderReplacesAll ==
    rendered # <<>> =>
        /\ \A mark \in Marks :
              /\ Occurrences(rendered[1], mark) = 0
              /\ ValueFor(mark, bindings) # "" =>
                    Occurrences(rendered[1], ValueFor(mark, bindings))
                        = Occurrences(template, mark)
        /\ \A text \in Literals :
              Occurrences(rendered[1], text) = Occurrences(template, text)
        /\ (template = <<"Q: ", QueryMark>> /\ DOMAIN bindings = {"query"}) =>
              rendered[1] = <<"Q: ", "hi">>
        /\ (template = <<"Q: ", QueryMark>> /\ DOMAIN bindings = {}) =>
              rendered[1] = <<"Q: ">>

\* a template with the same placeholder twice and another one unbound has
\* been rendered
C22_Witness ==
    /\ rendered # <<>>
    /\ Occurrences(template, QueryMark) = 2
    /\ Occurrences(template, ContextMark) = 1
    /\ DOMAIN bindings = {"query"}
    /\ rendered[1] = SelectSeq(template, LAMBDA piece : piece # ContextMark /\ piece # QueryMark)
                         \o <<"hi", "hi">>

(***************************************************************************)
(* Properties of the dashboard (checked under SpecApp)                     *)
(***************************************************************************)
\* the promise of the call settles in this step, rejected or resolved
Rejects(m) == Answered(m, "failed") /\ pending'[m] = <<>>
Resolves(m) == Answered(m, "ok") /\ pending'[m] = <<>>

\* the confirm dialog is answered with `no`
Declines == confirming # <<>> /\ confirming' = <<>> /\ pending' = pending

\* a storage call fails or the delete is declined: the dashboard state stays
FailureKeepsState ==
    (Rejects("create") \/ Rejects("update") \/ Rejects("delete") \/ Declines) =>
        UNCHANGED <<stacks, currentStack, currentView>>

\* a delete succeeds: the stacks with that id leave the list, the others
\* stay, in their order
DeleteRemovesOne ==
    Resolves("delete") =>
        LET stackId == pending.delete[1].arg[1]
            kept == { i \in DOMAIN stacks : stacks[i].id # stackId }
        IN  /\ Len(stacks') = Cardinality(kept)
            /\ \A i \in kept :
                  stacks'[Cardinality({ j \in kept : j <= i })] = stacks[i]

\* a save succeeds and the list has an entry with that id: the entry holds
\* the saved stack, the others stay
SaveReplaces ==
    LET updatedStack == pending.update[1].arg[1]
        savedStack == pending.update[1].result[1]
    IN  \E i \in DOMAIN stacks :
            /\ stacks[i].id = updatedStack.id
            /\ Len(stacks') = Len(stacks)
            /\ stacks'[i] = savedStack
            /\ \A j \in DOMAIN stacks : j # i => stacks'[j] = stacks[j]

\* a save succeeds and the list has no entry with that id: the saved stack
\* is added at the end
SaveAppends ==
    LET updatedStack == pending.update[1].arg[1]
        savedStack == pending.update[1].result[1]
    IN  /\ \A i \in DOMAIN stacks : stacks[i].id # updatedStack.id
        /\ Len(stacks') = Len(stacks) + 1
        /\ stacks'[Len(stacks')] = savedStack
        /\ \A j \in DOMAIN stacks : stacks'[j] = stacks[j]

\* C30 as stated: a failed create, update or delete and a declined delete
\* leave stacks, currentStack and currentView as they were; a successful
\* delete removes exactly the stack with that id; a successful save replaces
\* exactly the entry with that id.
C30_SaveAlwaysReplaces ==
    [][/\ FailureKeepsState
       /\ DeleteRemovesOne
       /\ Resolves("update") => SaveReplaces]_vars

\* C30, amended: as above, but a successful save replaces the entry with that
\* id when the list has one and adds the saved stack at the end when it has
\* none.
C30_FailureKeepsState ==
    [][/\ FailureKeepsState
       /\ DeleteRemovesOne
       /\ Resolves("update") => (SaveReplaces \/ SaveAppends)]_vars

\* a delete has failed with two stacks on the dashboard, one of them saved
\* before, and the failure is about to reach handleDeleteStack's catch
C30_Witness ==
    /\ Answered("delete", "failed")
    /\ ~Blocked
    /\ DashboardShown
    /\ Len(stacks) = 2
    /\ \E i \in DOMAIN stacks : stacks[i].nodes = BuilderGraph

====
